---- MODULE Spec2Model ----
(***************************************************************************)
(* A model of fscad.py, a small DSL over a host CAD application.           *)
(*                                                                         *)
(* Numbers.  Python floats are modelled by exact fixed-point numerals: the *)
(* integer n stands for the number n / Unit.  Every input below is chosen  *)
(* so that each division the code performs (/ 10, / 2, / 2.0) is exact at  *)
(* that resolution, hence * 10 and / 10 are real operations on numerals    *)
(* and not the identity.                                                   *)
(*                                                                         *)
(* Python values (None, scalars, tuples, lists, host points, raised        *)
(* errors) are records tagged by a field k.                                *)
(***************************************************************************)
EXTENDS Integers, Sequences, FiniteSets, TLC

VARIABLES
    occs,       \* the design's occurrences: occs[i] is the occurrence with id i
    geom,       \* the bodies of the design: geom[b] is body b (owner, box)
    snapshots,  \* number of entries of design().snapshots
    nzCalls,    \* history: number of translate calls so far with a non-zero delta
    calls,      \* history: number of calls the script has made so far
    ret,        \* what the last call of the DSL did: arguments and outcome
    loftFeatures,   \* number of entries of root().features.loftFeatures
    documents,  \* app().documents: the open documents, in iteration order
    runs,       \* history: number of run_design calls so far
    joiner      \* a Joiner object and the history of its scope

hostVars == <<loftFeatures, documents, runs, joiner>>
vars == <<occs, geom, snapshots, nzCalls, calls, ret, loftFeatures, documents, runs,
          joiner>>

(***************************************************************************)
(* Bounds of the model.                                                    *)
(***************************************************************************)
NumNodes == 3       \* occurrences of a scene tree drawn for the traversal
NumBodies == 4      \* bodies of a scene tree drawn for the traversal
MaxCalls == 4       \* calls of a design script
MaxConversions == 2 \* conversions applied in a row to one value
MaxSketches == 3    \* sketches handed to one loft call
MaxRuns == 3        \* run_design calls of one session
MaxEntities == 3    \* entities added to one Joiner

\* Steps per unit of the fixed-point numerals: fine enough for MaxCalls
\* midpoint placements followed by one measurement.
Unit == 2 ^ (MaxCalls + 2)
Num(x) == x * Unit

(***************************************************************************)
(* Python values.                                                          *)
(***************************************************************************)
None == [k |-> "None"]
\* No Joiner has been constructed.
NoJoiner == [phase |-> "none"]
Scalar(n) == [k |-> "num", v |-> n]
Raised(e) == [k |-> "raised", error |-> e]
IsRaised(v) == v.k = "raised"

(***************************************************************************)
(* Small helpers on sequences and vectors.                                 *)
(***************************************************************************)
Range(s) == {s[i] : i \in 1..Len(s)}
Reverse(s) == [i \in 1..Len(s) |-> s[Len(s) + 1 - i]]
IndexOf(s, x) == CHOOSE i \in 1..Len(s) : s[i] = x

RECURSIVE AscSeq(_)
AscSeq(S) ==
    IF S = {} THEN <<>>
    ELSE LET m == CHOOSE x \in S : \A y \in S : x <= y
         IN  <<m>> \o AscSeq(S \ {m})

Min2(a, b) == IF a <= b THEN a ELSE b
Max2(a, b) == IF a >= b THEN a ELSE b
VAdd(u, w) == <<u[1] + w[1], u[2] + w[2], u[3] + w[3]>>
Zero3 == <<0, 0, 0>>

(***************************************************************************)
(* Unit conversion (_convert_units, _mm, _cm).                             *)
(***************************************************************************)
Point3D(x, y, z) == [k |-> "Point3D", e |-> <<x, y, z>>]
Vector3D(x, y, z) == [k |-> "Vector3D", e |-> <<x, y, z>>]
Tuple(e) == [k |-> "tuple", e |-> e]
List(e) == [k |-> "list", e |-> e]

RECURSIVE Repeat(_, _)
Repeat(s, n) == IF n = 0 THEN <<>> ELSE s \o Repeat(s, n - 1)

\* The two lambdas handed to _convert_units, as values.
\* lambda value: value * 10.  Python repeats a tuple or a list multiplied by
\* an int; None and the host's points do not multiply.
Times10(value) ==
    CASE value.k = "num" -> Scalar(value.v * 10)
      [] value.k \in {"tuple", "list"} -> [value EXCEPT !.e = Repeat(value.e, 10)]
      [] OTHER -> Raised("TypeError")

\* lambda value: value / 10.  Only a number divides.
Over10(value) ==
    CASE value.k = "num" -> Scalar(value.v \div 10)
      [] OTHER -> Raised("TypeError")

\* convert(value), for convert one of the two lambdas.
Convert(convert, value) ==
    IF convert = "value * 10" THEN Times10(value) ELSE Over10(value)

\* _convert_units: None passes, a point or vector is rebuilt from its
\* converted coordinates, a tuple or list has `convert` mapped over its
\* elements (an element that fails makes the whole call fail), anything else
\* is converted itself.
_convert_units(value, convert) ==
    CASE value.k = "None" -> None
      [] value.k \in {"Point3D", "Vector3D"} ->
            [value EXCEPT !.e = [i \in 1..3 |-> Convert(convert, Scalar(value.e[i])).v]]
      [] value.k \in {"tuple", "list"} ->
            LET mapped == [i \in 1..Len(value.e) |-> Convert(convert, value.e[i])]
            IN  IF \E i \in 1..Len(mapped) : IsRaised(mapped[i])
                THEN Raised("TypeError")
                ELSE [value EXCEPT !.e = mapped]
      [] OTHER -> Convert(convert, value)

_mm(cm_value) == _convert_units(cm_value, "value * 10")
_cm(mm_value) == _convert_units(mm_value, "value / 10")

(***************************************************************************)
(* Bounding boxes.                                                         *)
(***************************************************************************)
BoundingBox3D(minPoint, maxPoint) ==
    [k |-> "BoundingBox3D", minPoint |-> minPoint, maxPoint |-> maxPoint]

\* The placement of an occurrence in the world: its transform composed with
\* those of the occurrences it is nested in (translations only).
RECURSIVE WorldOffset(_)
WorldOffset(n) ==
    IF n = 0 THEN Zero3 ELSE VAdd(occs[n].transform, WorldOffset(occs[n].parent))

\* measureManager.getOrientedBoundingBox(body, X, Y): the host's measurement
\* of a body (or a sketch's wire body) where it is placed, as a centre and
\* three extents along the world axes.
getOrientedBoundingBox(body) ==
    LET off == WorldOffset(geom[body].owner)
        lo == VAdd(geom[body].minPoint, off)
        hi == VAdd(geom[body].maxPoint, off)
    IN  [centerPoint |-> [i \in 1..3 |-> (lo[i] + hi[i]) \div 2],
         length |-> hi[1] - lo[1],
         width |-> hi[2] - lo[2],
         height |-> hi[3] - lo[3]]

_oriented_bounding_box_to_bounding_box(oriented) ==
    BoundingBox3D(
        <<oriented.centerPoint[1] - oriented.length \div 2,
          oriented.centerPoint[2] - oriented.width \div 2,
          oriented.centerPoint[3] - oriented.height \div 2>>,
        <<oriented.centerPoint[1] + oriented.length \div 2,
          oriented.centerPoint[2] + oriented.width \div 2,
          oriented.centerPoint[3] + oriented.height \div 2>>)

\* BoundingBox3D.combine: the smallest box holding both.
combine(a, b) ==
    BoundingBox3D(
        [i \in 1..3 |-> Min2(a.minPoint[i], b.minPoint[i])],
        [i \in 1..3 |-> Max2(a.maxPoint[i], b.maxPoint[i])])

(***************************************************************************)
(* Scene traversal.                                                        *)
(***************************************************************************)
\* A plausible slip: the light bulb of the children is never consulted.
RECURSIVE occurrence_bodies_all(_)
occurrence_bodies_all(occurrence) ==
    LET kids == occs[occurrence].childOccurrences
        acc[i \in 0..Len(kids)] ==
            IF i = 0 THEN occs[occurrence].bRepBodies
            ELSE acc[i - 1] \o occurrence_bodies_all(kids[i])
    IN  acc[Len(kids)]

\* _occurrence_bodies: the occurrence's own bodies, then those of each child
\* whose light bulb is on, in child order.
RECURSIVE _occurrence_bodies(_)
_occurrence_bodies(occurrence) ==
    LET kids == occs[occurrence].childOccurrences
        acc[i \in 0..Len(kids)] ==
            IF i = 0 THEN occs[occurrence].bRepBodies
            ELSE IF occs[kids[i]].isLightBulbOn
                 THEN acc[i - 1] \o _occurrence_bodies(kids[i])
                 ELSE acc[i - 1]
    IN  acc[Len(kids)]

\* _occurrence_sketches: the same walk over the sketches (as wire boxes).
RECURSIVE _occurrence_sketches(_)
_occurrence_sketches(occurrence) ==
    LET kids == occs[occurrence].childOccurrences
        acc[i \in 0..Len(kids)] ==
            IF i = 0 THEN occs[occurrence].sketches
            ELSE IF occs[kids[i]].isLightBulbOn
                 THEN acc[i - 1] \o _occurrence_sketches(kids[i])
                 ELSE acc[i - 1]
    IN  acc[Len(kids)]

(***************************************************************************)
(* Measuring an occurrence.                                                *)
(***************************************************************************)
\* _get_exact_bounding_box: the boxes of the visible bodies and of the wires
\* of the visible sketches, combined one by one; None when there is none.
_get_exact_bounding_box(occurrence) ==
    LET bodies == _occurrence_bodies(occurrence) \o _occurrence_sketches(occurrence)
        bounding_box[i \in 0..Len(bodies)] ==
            IF i = 0 THEN None
            ELSE LET body_bounding_box ==
                        _oriented_bounding_box_to_bounding_box(
                            getOrientedBoundingBox(bodies[i]))
                 IN  IF bounding_box[i - 1].k = "None"
                     THEN body_bounding_box
                     ELSE combine(bounding_box[i - 1], body_bounding_box)
    IN  bounding_box[Len(bodies)]

\* minOf, maxOf, midOf: an attribute of None is an AttributeError.
minOf(occurrence) ==
    LET bounding_box == _get_exact_bounding_box(occurrence)
    IN  IF bounding_box.k = "None" THEN Raised("AttributeError")
        ELSE _mm(Point3D(bounding_box.minPoint[1], bounding_box.minPoint[2],
                         bounding_box.minPoint[3]))
maxOf(occurrence) ==
    LET bounding_box == _get_exact_bounding_box(occurrence)
    IN  IF bounding_box.k = "None" THEN Raised("AttributeError")
        ELSE _mm(Point3D(bounding_box.maxPoint[1], bounding_box.maxPoint[2],
                         bounding_box.maxPoint[3]))
midOf(occurrence) ==
    LET bounding_box == _get_exact_bounding_box(occurrence)
    IN  IF bounding_box.k = "None" THEN Raised("AttributeError")
        ELSE _mm(Point3D(
                (bounding_box.minPoint[1] + bounding_box.maxPoint[1]) \div 2,
                (bounding_box.minPoint[2] + bounding_box.maxPoint[2]) \div 2,
                (bounding_box.minPoint[3] + bounding_box.maxPoint[3]) \div 2))

(***************************************************************************)
(* Placements.  A placement is the closure minAt, maxAt, midAt or keep     *)
(* returns, or None; its value is a number or the closure atMin, atMax or  *)
(* atMid returns, which holds the box measured when it was made.           *)
(* coordinate_index is 0, 1 or 2.                                          *)
(***************************************************************************)
atMin(entity) == [k |-> "atMin", bounding_box |-> _get_exact_bounding_box(entity)]
atMax(entity) == [k |-> "atMax", bounding_box |-> _get_exact_bounding_box(entity)]
atMid(entity) == [k |-> "atMid", bounding_box |-> _get_exact_bounding_box(entity)]
minAt(value) == [k |-> "minAt", value |-> value]
maxAt(value) == [k |-> "maxAt", value |-> value]
midAt(value) == [k |-> "midAt", value |-> value]
keep == [k |-> "keep"]

\* The closures of atMin, atMax, atMid called with an axis.
CallAt(callback, coordinate_index) ==
    LET bounding_box == callback.bounding_box
        i == coordinate_index + 1
    IN  IF bounding_box.k = "None" THEN Raised("AttributeError")
        ELSE CASE callback.k = "atMin" -> _mm(Scalar(bounding_box.minPoint[i]))
               [] callback.k = "atMax" -> _mm(Scalar(bounding_box.maxPoint[i]))
               [] callback.k = "atMid" ->
                    _mm(Scalar((bounding_box.minPoint[i] + bounding_box.maxPoint[i]) \div 2))

_get_placement_value(value, coordinate_index) ==
    IF value.k \in {"atMin", "atMax", "atMid"}
    THEN LET v == CallAt(value, coordinate_index)
         IN  IF IsRaised(v) THEN v ELSE _cm(v)
    ELSE _cm(value)

\* A plausible slip: minAt measures from the maximum.
minAt_from_max(value, coordinate_index, bounding_box) ==
    LET target == _get_placement_value(value, coordinate_index)
    IN  IF IsRaised(target) THEN target
        ELSE IF bounding_box.k = "None" THEN Raised("AttributeError")
        ELSE _mm(Scalar(target.v - bounding_box.maxPoint[coordinate_index + 1]))

\* The closures of minAt, maxAt, midAt called with an axis and a box.
minAt_lambda(value, coordinate_index, bounding_box) ==
    LET target == _get_placement_value(value, coordinate_index)
    IN  IF IsRaised(target) THEN target
        ELSE IF bounding_box.k = "None" THEN Raised("AttributeError")
        ELSE _mm(Scalar(target.v - bounding_box.minPoint[coordinate_index + 1]))

maxAt_lambda(value, coordinate_index, bounding_box) ==
    LET target == _get_placement_value(value, coordinate_index)
    IN  IF IsRaised(target) THEN target
        ELSE IF bounding_box.k = "None" THEN Raised("AttributeError")
        ELSE _mm(Scalar(target.v - bounding_box.maxPoint[coordinate_index + 1]))

midAt_lambda(value, coordinate_index, bounding_box) ==
    LET target == _get_placement_value(value, coordinate_index)
    IN  IF IsRaised(target) THEN target
        ELSE IF bounding_box.k = "None" THEN Raised("AttributeError")
        ELSE _mm(Scalar(target.v -
                (bounding_box.minPoint[coordinate_index + 1]
                    + bounding_box.maxPoint[coordinate_index + 1]) \div 2))

\* placement(coordinate_index, bounding_box), as place calls it: None is not
\* callable, keep's closure returns 0 whatever it is given.
CallPlacement(placement, coordinate_index, bounding_box) ==
    CASE placement.k = "None" -> Raised("TypeError")
      [] placement.k = "keep" -> Scalar(0)
      [] placement.k = "minAt" -> minAt_lambda(placement.value, coordinate_index, bounding_box)
      [] placement.k = "maxAt" -> maxAt_lambda(placement.value, coordinate_index, bounding_box)
      [] placement.k = "midAt" -> midAt_lambda(placement.value, coordinate_index, bounding_box)

(***************************************************************************)
(* translate and place, as functions of the design: what they raise and    *)
(* the occurrences and snapshots they leave.                               *)
(***************************************************************************)
\* A plausible slip: the deltas are handed to the host unconverted.
translate_unconverted(occurrence, x, y, z) ==
    IF x = 0 /\ y = 0 /\ z = 0
    THEN [raised |-> None, occs |-> occs, snapshots |-> snapshots]
    ELSE [raised |-> None,
          occs |-> [occs EXCEPT ![occurrence].transform = VAdd(@, <<x, y, z>>)],
          snapshots |-> snapshots + 1]

\* A plausible slip: the snapshot is committed before the early return.
translate_always_snapshots(occurrence, x, y, z) ==
    [raised |-> None,
     occs |-> [occs EXCEPT ![occurrence].transform =
                    VAdd(@, _cm(Vector3D(x, y, z)).e)],
     snapshots |-> snapshots + 1]

translate(occurrence, x, y, z) ==
    IF x = 0 /\ y = 0 /\ z = 0
    THEN [raised |-> None, occs |-> occs, snapshots |-> snapshots]
    ELSE [raised |-> None,
          occs |-> [occs EXCEPT ![occurrence].transform =
                        VAdd(@, _cm(Vector3D(x, y, z)).e)],
          snapshots |-> snapshots + 1]

\* The arguments are evaluated left to right; the first that raises ends the
\* call before translate is reached.
place(occurrence, x_placement, y_placement, z_placement) ==
    LET bounding_box == _get_exact_bounding_box(occurrence)
        x == CallPlacement(x_placement, 0, bounding_box)
        y == CallPlacement(y_placement, 1, bounding_box)
        z == CallPlacement(z_placement, 2, bounding_box)
    IN  IF IsRaised(x) THEN [raised |-> x, occs |-> occs, snapshots |-> snapshots]
        ELSE IF IsRaised(y) THEN [raised |-> y, occs |-> occs, snapshots |-> snapshots]
        ELSE IF IsRaised(z) THEN [raised |-> z, occs |-> occs, snapshots |-> snapshots]
        ELSE translate(occurrence, x.v, y.v, z.v)

(***************************************************************************)
(* The design script: the calls a design function makes, one action each.  *)
(* Inputs are in display units (mm).                                       *)
(***************************************************************************)
BoxDims == {<<Num(20), Num(10), Num(30)>>}
RectDims == {<<Num(40), Num(20)>>}
CylinderArgs == {<<Scalar(Num(20)), Scalar(Num(10)), None>>,
                 <<Scalar(Num(20)), Scalar(Num(10)), Scalar(Num(20))>>}
Deltas == {Zero3, <<Num(-10), Num(20), Num(5)>>}
Target == <<Num(10), 0, Num(-20)>>

TopLevel == {n \in 1..Len(occs) : occs[n].parent = 0}
SeqsUpTo2(S) ==
    {<<>>} \cup {<<a>> : a \in S} \cup {p \in S \X S : p[1] # p[2]}

\* The placements a script hands to place for the three axes: constants,
\* the extent of an anchor occurrence, keep, and an argument left out.
PlaceArgs(anchor) ==
    {<<minAt(Scalar(Target[1])), minAt(Scalar(Target[2])), minAt(Scalar(Target[3]))>>,
     <<keep, maxAt(Scalar(0)), midAt(Scalar(Num(10)))>>,
     <<minAt(atMax(anchor)), midAt(atMid(anchor)), maxAt(atMin(anchor))>>,
     <<keep, keep, keep>>,
     <<minAt(Scalar(Num(10))), None, None>>}

\* A script is followed for MaxCalls calls.
CanCall == calls < MaxCalls

NewOccurrence(bodies, sketches, children) ==
    [parent |-> 0, childOccurrences |-> children, bRepBodies |-> bodies,
     sketches |-> sketches, isLightBulbOn |-> TRUE, transform |-> Zero3]

\* root().occurrences.addNewComponent(identity) with one body or one sketch
\* of the given extent added to the new component (_create_component, rect).
WithNewOccurrence(kind, lo, hi) ==
    LET id == Len(occs) + 1
        b == Len(geom) + 1
    IN  /\ geom' = Append(geom, [owner |-> id, minPoint |-> lo, maxPoint |-> hi])
        /\ occs' = Append(occs,
                IF kind = "body" THEN NewOccurrence(<<b>>, <<>>, <<>>)
                ELSE NewOccurrence(<<>>, <<b>>, <<>>))

\* occurrence.moveToComponent(target) for each of `moved`, in order; with
\* `hide`, each is then switched off.
MoveInto(moved, target, hide) ==
    [n \in 1..Len(occs) |->
        IF n \in Range(moved)
        THEN [occs[n] EXCEPT !.parent = target,
                             !.isLightBulbOn = IF hide THEN FALSE ELSE @]
        ELSE occs[n]]

\* box(x, y, z): a box from the origin to (x, y, z); returns its occurrence.
Box(x, y, z) ==
    /\ CanCall
    /\ calls' = calls + 1
    /\ LET c == _cm(Tuple(<<Scalar(x), Scalar(y), Scalar(z)>>)).e
           cx == c[1].v
           cy == c[2].v
           cz == c[3].v
           center == <<cx \div 2, cy \div 2, cz \div 2>>
       IN  WithNewOccurrence("body",
                <<center[1] - cx \div 2, center[2] - cy \div 2, center[3] - cz \div 2>>,
                <<center[1] + cx \div 2, center[2] + cy \div 2, center[3] + cz \div 2>>)
    /\ ret' = [op |-> "box", raised |-> None, value |-> Scalar(Len(occs) + 1)]
    /\ UNCHANGED <<snapshots, nzCalls, hostVars>>

\* rect(x, y): a sketch of a rectangle from the origin; returns its occurrence.
Rect(x, y) ==
    /\ CanCall
    /\ calls' = calls + 1
    /\ LET corner == _cm(Point3D(x, y, 0)).e
       IN  WithNewOccurrence("sketch", Zero3, corner)
    /\ ret' = [op |-> "rect", raised |-> None, value |-> Scalar(Len(occs) + 1)]
    /\ UNCHANGED <<snapshots, nzCalls, hostVars>>

\* cylinder(height, radius, radius2=None): the three are converted as one
\* tuple; the function has no return statement.
Cylinder(height, radius, radius2) ==
    /\ CanCall
    /\ calls' = calls + 1
    /\ LET c == _cm(Tuple(<<height, radius, radius2>>))
       IN  IF IsRaised(c)
           THEN /\ ret' = [op |-> "cylinder", raised |-> c, value |-> None,
                           args |-> <<height, radius, radius2>>]
                /\ UNCHANGED <<occs, geom>>
           ELSE LET h == c.e[1].v
                    r1 == c.e[2].v
                    r2 == IF c.e[3].k = "None" THEN r1 ELSE c.e[3].v
                    r == Max2(r1, r2)
                IN  /\ WithNewOccurrence("body", <<-r, -r, 0>>, <<r, r, h>>)
                    /\ ret' = [op |-> "cylinder", raised |-> None, value |-> None,
                               args |-> <<height, radius, radius2>>,
                               radii |-> <<r1, r2>>]
    /\ UNCHANGED <<snapshots, nzCalls, hostVars>>

\* sphere(radius): a sphere about the origin; the function has no return
\* statement.
Sphere(radius) ==
    /\ CanCall
    /\ calls' = calls + 1
    /\ LET r == _cm(Scalar(radius)).v
       IN  WithNewOccurrence("body", <<-r, -r, -r>>, <<r, r, r>>)
    /\ ret' = [op |-> "sphere", raised |-> None, value |-> None]
    /\ UNCHANGED <<snapshots, nzCalls, hostVars>>

\* component(*occurrences): a new occurrence that the given ones move into.
Component(occurrences) ==
    /\ CanCall
    /\ calls' = calls + 1
    /\ occs' = Append(MoveInto(occurrences, Len(occs) + 1, FALSE),
                      NewOccurrence(<<>>, <<>>, occurrences))
    /\ ret' = [op |-> "component", raised |-> None, value |-> Scalar(Len(occs) + 1)]
    /\ UNCHANGED <<geom, snapshots, nzCalls, hostVars>>

\* translate(occurrence, x, y, z); returns the occurrence it was given.
Translate(occurrence, x, y, z) ==
    \E t \in {translate(occurrence, x, y, z)} :
        /\ CanCall
        /\ calls' = calls + 1
        /\ occs' = t.occs
        /\ snapshots' = t.snapshots
        /\ nzCalls' = IF <<x, y, z>> # Zero3 THEN nzCalls + 1 ELSE nzCalls
        /\ ret' = [op |-> "translate", occ |-> occurrence, args |-> <<x, y, z>>,
                   raised |-> t.raised, value |-> Scalar(occurrence)]
        /\ UNCHANGED <<geom, hostVars>>

\* place(occurrence, x_placement, y_placement, z_placement).
Place(occurrence, x_placement, y_placement, z_placement) ==
    \E bounding_box \in {_get_exact_bounding_box(occurrence)},
       p \in {place(occurrence, x_placement, y_placement, z_placement)} :
        /\ CanCall
        /\ calls' = calls + 1
        /\ occs' = p.occs
        /\ snapshots' = p.snapshots
        /\ nzCalls' = IF p.snapshots # snapshots THEN nzCalls + 1 ELSE nzCalls
        /\ ret' = [op |-> "place", occ |-> occurrence,
                   args |-> <<x_placement, y_placement, z_placement>>,
                   before |-> bounding_box,
                   raised |-> p.raised,
                   value |-> IF IsRaised(p.raised) THEN None ELSE Scalar(occurrence)]
        /\ UNCHANGED <<geom, hostVars>>

\* A measurement: _get_exact_bounding_box, minOf, maxOf or midOf.
Measure(op, occurrence) ==
    LET v == CASE op = "_get_exact_bounding_box" -> _get_exact_bounding_box(occurrence)
               [] op = "minOf" -> minOf(occurrence)
               [] op = "maxOf" -> maxOf(occurrence)
               [] op = "midOf" -> midOf(occurrence)
    IN  /\ ret' = [op |-> op, occ |-> occurrence,
                   raised |-> IF IsRaised(v) THEN v ELSE None,
                   value |-> IF IsRaised(v) THEN None ELSE v]
        /\ UNCHANGED <<occs, geom, snapshots, nzCalls, calls, hostVars>>

Init ==
    /\ occs = <<>>
    /\ geom = <<>>
    /\ snapshots = 0
    /\ nzCalls = 0
    /\ calls = 0
    /\ ret = [op |-> "init"]
    /\ loftFeatures = 0
    /\ documents = <<>>
    /\ runs = 0
    /\ joiner = NoJoiner

Next ==
    \/ \E d \in BoxDims : Box(d[1], d[2], d[3])
    \/ \E occurrences \in SeqsUpTo2(TopLevel) : Component(occurrences)
    \/ \E occurrence \in 1..Len(occs), d \in Deltas :
            Translate(occurrence, d[1], d[2], d[3])
    \/ /\ occs # <<>>
       /\ \E a \in PlaceArgs(1) : \E occurrence \in 1..Len(occs) :
            Place(occurrence, a[1], a[2], a[3])

Spec == Init /\ [][Next]_vars

(***************************************************************************)
(* The primitives, and what a script does with what they return: it hands  *)
(* the value on to translate.                                              *)
(***************************************************************************)
SphereRadii == {Num(10), Num(30)}
Constructors == {"box", "sphere", "cylinder", "rect"}

\* translate(<what the last constructor returned>, x, y, z).  With a delta
\* that is not zero translate reads the bodies of its argument, and None has
\* none to read.
TranslateReturned(x, y, z) ==
    /\ ret.op \in Constructors
    /\ ~IsRaised(ret.raised)
    /\ IF ret.value.k = "None"
       THEN /\ CanCall
            /\ calls' = calls + 1
            /\ ret' = [op |-> "translate", occ |-> None, args |-> <<x, y, z>>,
                       raised |-> IF <<x, y, z>> = Zero3 THEN None
                                  ELSE Raised("AttributeError"),
                       value |-> None]
            /\ UNCHANGED <<occs, geom, snapshots, nzCalls, hostVars>>
       ELSE Translate(ret.value.v, x, y, z)

NextPrimitives ==
    \/ \E d \in BoxDims : Box(d[1], d[2], d[3])
    \/ \E radius \in SphereRadii : Sphere(radius)
    \/ \E a \in CylinderArgs : Cylinder(a[1], a[2], a[3])
    \/ \E d \in RectDims : Rect(d[1], d[2])
    \/ \E d \in Deltas : TranslateReturned(d[1], d[2], d[3])

SpecPrimitives == Init /\ [][NextPrimitives]_vars

(***************************************************************************)
(* touching.  The host measures the minimum distance between two           *)
(* occurrences and reports the closest point on each, in internal units.   *)
(* The bodies here are boxes along the axes, for which the closest points  *)
(* are found axis by axis.                                                 *)
(***************************************************************************)
BodyBox(body) ==
    BoundingBox3D(VAdd(geom[body].minPoint, WorldOffset(geom[body].owner)),
                  VAdd(geom[body].maxPoint, WorldOffset(geom[body].owner)))

\* The closest points of two boxes: on an axis where they are apart, the
\* faces that look at each other; where they overlap, a coordinate they share.
ClosestPoints(boxOne, boxTwo) ==
    [positionOne |->
        [i \in 1..3 |->
            IF boxOne.maxPoint[i] < boxTwo.minPoint[i] THEN boxOne.maxPoint[i]
            ELSE IF boxOne.minPoint[i] > boxTwo.maxPoint[i] THEN boxOne.minPoint[i]
            ELSE Max2(boxOne.minPoint[i], boxTwo.minPoint[i])],
     positionTwo |->
        [i \in 1..3 |->
            IF boxOne.maxPoint[i] < boxTwo.minPoint[i] THEN boxTwo.minPoint[i]
            ELSE IF boxOne.minPoint[i] > boxTwo.maxPoint[i] THEN boxTwo.maxPoint[i]
            ELSE Max2(boxOne.minPoint[i], boxTwo.minPoint[i])]]

SquaredLength(m) ==
    LET d == [i \in 1..3 |-> m.positionTwo[i] - m.positionOne[i]]
    IN  d[1] * d[1] + d[2] * d[2] + d[3] * d[3]

\* app().measureManager.measureMinimumDistance(entityOne, entityTwo):
\* positionOne lies on entityOne, positionTwo on entityTwo.
measureMinimumDistance(entityOne, entityTwo) ==
    LET pairs == {ClosestPoints(BodyBox(a), BodyBox(b)) :
                    a \in Range(_occurrence_bodies(entityOne)),
                    b \in Range(_occurrence_bodies(entityTwo))}
    IN  CHOOSE m \in pairs : \A n \in pairs : SquaredLength(m) <= SquaredLength(n)

\* touching(anchor_occurrence, target_occurrence): each difference goes
\* through _mm, the tuple of the three goes through _mm once more, and the
\* result is handed to translate.
touching(anchor_occurrence, target_occurrence) ==
    LET measure_result == measureMinimumDistance(target_occurrence, anchor_occurrence)
        deltas == _mm(Tuple(
            [i \in 1..3 |->
                _mm(Scalar(measure_result.positionTwo[i]
                            - measure_result.positionOne[i]))]))
    IN  translate(target_occurrence, deltas.e[1].v, deltas.e[2].v, deltas.e[3].v)

FarDeltas == {<<Num(50), Num(-30), Num(40)>>}

\* touching(anchor_occurrence, target_occurrence); the function has no
\* return statement.
Touching(anchor_occurrence, target_occurrence) ==
    \E measure_result \in {measureMinimumDistance(target_occurrence, anchor_occurrence)},
       t \in {touching(anchor_occurrence, target_occurrence)} :
        /\ CanCall
        /\ calls' = calls + 1
        /\ occs' = t.occs
        /\ snapshots' = t.snapshots
        /\ nzCalls' = IF t.snapshots # snapshots THEN nzCalls + 1 ELSE nzCalls
        /\ ret' = [op |-> "touching",
                   anchor |-> anchor_occurrence,
                   target |-> target_occurrence,
                   distance |-> [i \in 1..3 |-> measure_result.positionTwo[i]
                                                - measure_result.positionOne[i]],
                   anchor_at |-> WorldOffset(anchor_occurrence),
                   target_at |-> WorldOffset(target_occurrence),
                   snapshots_before |-> snapshots,
                   raised |-> t.raised,
                   value |-> None]
        /\ UNCHANGED <<geom, hostVars>>

NextTouching ==
    \/ \E d \in BoxDims : Box(d[1], d[2], d[3])
    \/ \E occurrence \in 1..Len(occs), d \in Deltas \cup FarDeltas :
            Translate(occurrence, d[1], d[2], d[3])
    \/ \E anchor_occurrence, target_occurrence \in 1..Len(occs) :
            /\ anchor_occurrence # target_occurrence
            /\ Touching(anchor_occurrence, target_occurrence)

SpecTouching == Init /\ [][NextTouching]_vars

(***************************************************************************)
(* Unit conversion on its own: a value is drawn and converted up to        *)
(* MaxConversions times, each conversion applied to the last result.  The  *)
(* numbers drawn divide by 10 exactly that many times.                     *)
(***************************************************************************)
Dec(x) == x * 10 ^ (MaxConversions + 1)
UnitScalars == {Scalar(0), Scalar(Dec(7)), Scalar(Dec(-25))}
UnitFlat ==
    {Tuple(<<a, b, Scalar(Dec(3))>>) : a \in UnitScalars, b \in {Scalar(Dec(1)), Scalar(0)}}
    \cup {List(<<a, Scalar(Dec(4))>>) : a \in UnitScalars}
    \cup {Tuple(<<>>), List(<<>>)}
UnitWithNone ==
    {Tuple(<<Scalar(Dec(20)), Scalar(Dec(10)), None>>),
     List(<<None, Scalar(Dec(5))>>)}
UnitNested ==
    {Tuple(<<Tuple(<<Scalar(Dec(1)), Scalar(Dec(2))>>),
             Tuple(<<Scalar(Dec(3)), Scalar(Dec(4))>>)>>),
     List(<<List(<<Scalar(Dec(1)), Scalar(Dec(2))>>), List(<<Scalar(Dec(3))>>)>>),
     List(<<Tuple(<<Scalar(Dec(1)), Scalar(Dec(2)), Scalar(Dec(3))>>)>>),
     Tuple(<<List(<<Scalar(0)>>), List(<<>>)>>)}
UnitPoints ==
    {Point3D(Dec(1), Dec(2), 0), Vector3D(Dec(-1), 0, Dec(5))}
UnitValues ==
    {None} \cup UnitScalars \cup UnitFlat \cup UnitWithNone \cup UnitNested \cup UnitPoints

InitUnits ==
    /\ occs = <<>>
    /\ geom = <<>>
    /\ snapshots = 0
    /\ nzCalls = 0
    /\ calls = 0
    /\ loftFeatures = 0
    /\ documents = <<>>
    /\ runs = 0
    /\ joiner = NoJoiner
    /\ \E v \in UnitValues :
            ret = [op |-> "convert", input |-> v, steps |-> <<>>, value |-> v]

CanConvert ==
    /\ ret.op = "convert"
    /\ ~IsRaised(ret.value)
    /\ Len(ret.steps) < MaxConversions

\* _cm applied to the last result.
ToInternal ==
    /\ CanConvert
    /\ ret' = [ret EXCEPT !.steps = Append(@, "_cm"), !.value = _cm(ret.value)]
    /\ UNCHANGED <<occs, geom, snapshots, nzCalls, calls, hostVars>>

\* _mm applied to the last result.
ToDisplay ==
    /\ CanConvert
    /\ ret' = [ret EXCEPT !.steps = Append(@, "_mm"), !.value = _mm(ret.value)]
    /\ UNCHANGED <<occs, geom, snapshots, nzCalls, calls, hostVars>>

NextUnits ==
    \/ ToInternal
    \/ ToDisplay
    \/ \E a \in CylinderArgs : Cylinder(a[1], a[2], a[3])

SpecUnits == InitUnits /\ [][NextUnits]_vars

(***************************************************************************)
(* loft.  A sketch is followed as far as loft reads it: its name and the   *)
(* number of its profiles.  The host, not fscad, refuses a section that is *)
(* no profile (profiles.item(0) of an empty collection): it may do so when *)
(* the section is added or when the feature is created.                    *)
(***************************************************************************)
Sketches ==
    {[name |-> "circle", profiles |-> 1],
     [name |-> "square", profiles |-> 1],
     [name |-> "hexagon", profiles |-> 1],
     [name |-> "open_curve", profiles |-> 0],
     [name |-> "two_loops", profiles |-> 2]}
HostRefusals == {"loftSections.add", "loftFeatures.add"}

RECURSIVE SeqsOfLen(_, _)
SeqsOfLen(S, n) ==
    IF n = 0 THEN {<<>>}
    ELSE {Append(q, x) : q \in SeqsOfLen(S, n - 1), x \in S}
SketchArgs == UNION {SeqsOfLen(Sketches, n) : n \in 2..MaxSketches}

ValueError(name) ==
    [k |-> "raised", error |-> "ValueError",
     message |-> <<"Sketch", name, "contains multiple profiles">>]

\* loft(*sketches): what it raises and whether the feature is added.  The
\* sketches are read in order; the first with more than one profile raises
\* the ValueError; a sketch without profile is handed on to the host.
loft(sketches, host_refuses_at) ==
    LET section[i \in 0..Len(sketches)] ==
            IF i = 0 THEN None
            ELSE IF section[i - 1].k # "None" THEN section[i - 1]
            ELSE IF sketches[i].profiles > 1 THEN ValueError(sketches[i].name)
            ELSE IF sketches[i].profiles = 0 /\ host_refuses_at = "loftSections.add"
                 THEN Raised("RuntimeError")
            ELSE None
        sections == section[Len(sketches)]
    IN  IF sections.k # "None" THEN [raised |-> sections, added |-> FALSE]
        ELSE IF \E i \in 1..Len(sketches) : sketches[i].profiles = 0
             THEN [raised |-> Raised("RuntimeError"), added |-> FALSE]
        ELSE [raised |-> None, added |-> TRUE]

\* loft(*sketches): on success the feature and its new component are added
\* and the component's occurrence is returned.
Loft(sketches, host_refuses_at) ==
    \E l \in {loft(sketches, host_refuses_at)} :
        /\ CanCall
        /\ calls' = calls + 1
        /\ IF l.added
           THEN /\ WithNewOccurrence("body", Zero3, <<Num(1), Num(1), Num(1)>>)
                /\ loftFeatures' = loftFeatures + 1
           ELSE UNCHANGED <<occs, geom, loftFeatures>>
        /\ ret' = [op |-> "loft", args |-> sketches, raised |-> l.raised,
                   value |-> IF l.added THEN Scalar(Len(occs) + 1) ELSE None]
        /\ UNCHANGED <<snapshots, nzCalls, documents, runs, joiner>>

NextLoft ==
    \/ \E d \in RectDims : Rect(d[1], d[2])
    \/ \E sketches \in SketchArgs, host_refuses_at \in HostRefusals :
            Loft(sketches, host_refuses_at)

SpecLoft == Init /\ [][NextLoft]_vars

(***************************************************************************)
(* run_design.  The host's calls may fail; a failure is an exception       *)
(* raised at that call.  The design function is followed only as far as    *)
(* whether it raises.  A document is its name and the id the host gave it. *)
(***************************************************************************)
DocumentNames == {"fSCAD-Preview", "bracket"}
Untitled == "Untitled"
\* Exceptions, with whether they derive from Exception:
\* KeyboardInterrupt and SystemExit do not.
Exceptions ==
    {[error |-> "RuntimeError", isException |-> TRUE],
     [error |-> "KeyboardInterrupt", isException |-> FALSE]}
NoFailure == "none"

\* The documents a session starts with: none, or documents the user has
\* open, at most one of each name.
InitialDocuments ==
    {<<>>,
     <<[name |-> Untitled, id |-> 1]>>,
     <<[name |-> "fSCAD-Preview", id |-> 1]>>,
     <<[name |-> Untitled, id |-> 1], [name |-> "fSCAD-Preview", id |-> 2]>>}

NextId == Len(documents) + runs + 1

RECURSIVE Without(_, _)
Without(s, i) ==
    IF s = <<>> THEN <<>>
    ELSE IF i = 1 THEN Tail(s)
    ELSE <<Head(s)>> \o Without(Tail(s), i - 1)

\* The first document of the name in iteration order, as an index, or 0.
PreviewDoc(document_name) ==
    LET found == {i \in 1..Len(documents) : documents[i].name = document_name}
    IN  IF found = {} THEN 0 ELSE CHOOSE i \in found : \A j \in found : i <= j

\* The host calls and the design function, in the order run_design reaches
\* them; previewDoc is the index of the document found, or 0.
Stages(previewDoc) ==
    (IF previewDoc # 0
        THEN <<"previewDoc.activate", "activeViewport.camera", "previewDoc.close">>
        ELSE <<>>)
    \o <<"documents.add", "previewDoc.name", "previewDoc.activate new">>
    \o (IF previewDoc # 0 THEN <<"activeViewport.camera set">> ELSE <<>>)
    \o <<"design_func">>

\* A plausible slip: except Exception in place of the bare except.
except_Exception(exception) == exception.isException

\* The bare `except:` clause catches whatever is raised.
except_clause(exception) == TRUE

\* The handler: the trace is printed; the dialog is shown when
\* message_box_on_error is set and the host has a user interface.
handler(message_box_on_error, ui) == message_box_on_error /\ ui

\* run_design(design_func, message_box_on_error, document_name), the host
\* failing at `fails_at` (or nowhere) with `exception`: the documents it
\* leaves and what it did.
run_design(message_box_on_error, document_name, fails_at, exception, ui) ==
    LET previewDoc == PreviewDoc(document_name)
        stages == Stages(previewDoc)
        failed == fails_at # NoFailure
        reached == IF failed THEN IndexOf(stages, fails_at) ELSE Len(stages) + 1
        Done(stage) == stage \in Range(stages) /\ IndexOf(stages, stage) < reached
        closed == IF Done("previewDoc.close") THEN documents[previewDoc].id ELSE 0
        afterClose == IF closed # 0 THEN Without(documents, previewDoc) ELSE documents
        created == IF Done("documents.add") THEN NextId ELSE 0
        afterAdd ==
            IF created # 0
            THEN Append(afterClose,
                    [name |-> IF Done("previewDoc.name") THEN document_name
                              ELSE Untitled,
                     id |-> created])
            ELSE afterClose
        caught == failed /\ except_clause(exception)
    IN  [documents |-> afterAdd,
         failed |-> failed,
         invocations |-> IF Done("design_func") \/ fails_at = "design_func"
                         THEN 1 ELSE 0,
         propagated |-> failed /\ ~caught,
         dialog |-> caught /\ handler(message_box_on_error, ui),
         created |-> created,
         closed |-> closed]

RunDesign(message_box_on_error, document_name, fails_at, exception, ui) ==
    /\ runs < MaxRuns
    /\ fails_at = NoFailure \/ fails_at \in Range(Stages(PreviewDoc(document_name)))
    /\ \E r \in {run_design(message_box_on_error, document_name, fails_at, exception, ui)} :
        /\ documents' = r.documents
        /\ ret' = [op |-> "run_design",
                   message_box_on_error |-> message_box_on_error,
                   document_name |-> document_name,
                   failed |-> r.failed,
                   invocations |-> r.invocations,
                   propagated |-> r.propagated,
                   dialog |-> r.dialog,
                   created |-> r.created,
                   closed |-> r.closed]
    /\ runs' = runs + 1
    /\ UNCHANGED <<occs, geom, snapshots, nzCalls, calls, loftFeatures, joiner>>

InitRun ==
    /\ occs = <<>>
    /\ geom = <<>>
    /\ snapshots = 0
    /\ nzCalls = 0
    /\ calls = 0
    /\ ret = [op |-> "init"]
    /\ loftFeatures = 0
    /\ documents \in InitialDocuments
    /\ runs = 0
    /\ joiner = NoJoiner

AllStages == Range(Stages(1)) \cup {NoFailure}

NextRun ==
    \E message_box_on_error \in BOOLEAN, document_name \in DocumentNames,
       fails_at \in AllStages, exception \in Exceptions, ui \in BOOLEAN :
        RunDesign(message_box_on_error, document_name, fails_at, exception, ui)

SpecRun == InitRun /\ [][NextRun]_vars

(***************************************************************************)
(* Joiner.  The object is its attributes (_entities, _occurrence, which    *)
(* __init__ does not set) and the phase of the `with` statement that uses  *)
(* it; beside them the history of the scope is kept: the argument lists    *)
(* the join method was invoked with, the entities added inside the scope,  *)
(* the error the body raised and the error that left the statement.        *)
(* The join method is followed as far as what it is given and whether it   *)
(* returns or raises.                                                      *)
(***************************************************************************)
Entities == {Scalar(1), Scalar(2), Scalar(3)}
BodyErrors == {Raised("ValueError"), Raised("KeyboardInterrupt")}
JoinOutcomes == {"returns", "raises"}
Unset == [k |-> "unset"]
JoinError == Raised("RuntimeError")

\* Joiner(join_method, name)
__init__ ==
    [phase |-> "new", _entities |-> <<>>, _occurrence |-> Unset,
     joins |-> <<>>, added |-> <<>>, error |-> None, propagated |-> None]

__enter__(self) == [self EXCEPT !.phase = "entered"]

__call__(self, entity) ==
    [self EXCEPT !._entities = Append(@, entity), !.added = Append(@, entity)]

\* join_method(*entities, name=name): what it returns when it returns.
join_method(entities) == [k |-> "occurrence", of |-> entities]

\* A plausible slip: the join is made whether or not the body raised.
exit_always_joins(self, error_type, join_outcome) ==
    IF join_outcome = "raises"
    THEN [self EXCEPT !.phase = "exited", !.error = error_type,
                      !.joins = Append(@, self._entities),
                      !.propagated = JoinError]
    ELSE [self EXCEPT !.phase = "exited", !.error = error_type,
                      !.joins = Append(@, self._entities),
                      !._occurrence = join_method(self._entities),
                      !.propagated = error_type]

\* __exit__(error_type, value, trace), error_type None when the body raised
\* nothing.  It returns None, so an error of the body goes on to the caller;
\* an error of the join method leaves before _occurrence is set.
__exit__(self, error_type, join_outcome) ==
    IF error_type # None
    THEN [self EXCEPT !.phase = "exited", !.error = error_type,
                      !.propagated = error_type]
    ELSE IF join_outcome = "raises"
    THEN [self EXCEPT !.phase = "exited",
                      !.joins = Append(@, self._entities),
                      !.propagated = JoinError]
    ELSE [self EXCEPT !.phase = "exited",
                      !.joins = Append(@, self._entities),
                      !._occurrence = join_method(self._entities)]

\* result(): an attribute never set is an AttributeError.
result(self) ==
    IF self._occurrence = Unset THEN Raised("AttributeError") ELSE self._occurrence

joinerOthers == <<occs, geom, snapshots, nzCalls, calls, loftFeatures, documents, runs>>

\* with Joiner(...) as join:
JoinerEnter ==
    /\ joiner.phase = "new"
    /\ joiner' = __enter__(joiner)
    /\ ret' = [op |-> "__enter__", raised |-> None]
    /\ UNCHANGED joinerOthers

\* join(entity) inside the scope; returns the entity.
JoinerCall(entity) ==
    /\ joiner.phase = "entered"
    /\ Len(joiner._entities) < MaxEntities
    /\ joiner' = __call__(joiner, entity)
    /\ ret' = [op |-> "__call__", raised |-> None, value |-> entity]
    /\ UNCHANGED joinerOthers

\* The end of the scope: the body has finished, or has raised error_type.
JoinerExit(error_type, join_outcome) ==
    /\ joiner.phase = "entered"
    /\ joiner' = __exit__(joiner, error_type, join_outcome)
    /\ ret' = [op |-> "__exit__", raised |-> joiner'.propagated]
    /\ UNCHANGED joinerOthers

\* join.result() after the scope.
JoinerResult ==
    /\ joiner.phase = "exited"
    /\ ret' = [op |-> "result",
               raised |-> IF IsRaised(result(joiner)) THEN result(joiner) ELSE None,
               value |-> IF IsRaised(result(joiner)) THEN None ELSE result(joiner)]
    /\ UNCHANGED <<joiner, joinerOthers>>

InitJoiner ==
    /\ occs = <<>>
    /\ geom = <<>>
    /\ snapshots = 0
    /\ nzCalls = 0
    /\ calls = 0
    /\ ret = [op |-> "init"]
    /\ loftFeatures = 0
    /\ documents = <<>>
    /\ runs = 0
    /\ joiner = __init__

NextJoiner ==
    \/ JoinerEnter
    \/ \E entity \in Entities : JoinerCall(entity)
    \/ \E error_type \in BodyErrors \cup {None}, join_outcome \in JoinOutcomes :
            JoinerExit(error_type, join_outcome)
    \/ JoinerResult

SpecJoiner == InitJoiner /\ [][NextJoiner]_vars

(***************************************************************************)
(* Scene trees drawn for the traversal: every forest on NumNodes           *)
(* occurrences (a parent has a smaller id; 0 is the root component), every *)
(* choice of light bulbs, the bodies dealt to the occurrences, and the     *)
(* children and bodies of an occurrence listed in either order.            *)
(***************************************************************************)
ParentMaps ==
    {p \in [1..NumNodes -> 0..(NumNodes - 1)] : \A n \in 1..NumNodes : p[n] < n}
OwnerMaps ==
    {o \in [1..NumBodies -> 1..NumNodes] :
        \A b \in 1..(NumBodies - 1) : o[b] <= o[b + 1]}
Ordered(S, rev) == IF rev THEN Reverse(AscSeq(S)) ELSE AscSeq(S)

TreeOccs(par, vis, own, rev) ==
    [n \in 1..NumNodes |->
        [parent |-> par[n],
         childOccurrences |-> Ordered({m \in 1..NumNodes : par[m] = n}, rev),
         bRepBodies |-> Ordered({b \in 1..NumBodies : own[b] = n}, rev),
         sketches |-> <<>>,
         isLightBulbOn |-> vis[n],
         transform |-> Zero3]]
TreeGeom(own) ==
    [b \in 1..NumBodies |->
        [owner |-> own[b], minPoint |-> Zero3,
         maxPoint |-> <<Num(1), Num(1), Num(1)>>]]

InitTraversal ==
    \E par \in ParentMaps, vis \in [1..NumNodes -> BOOLEAN],
       own \in OwnerMaps, rev \in BOOLEAN :
        /\ occs = TreeOccs(par, vis, own, rev)
        /\ geom = TreeGeom(own)
        /\ snapshots = 0
        /\ nzCalls = 0
        /\ calls = 0
        /\ ret = [op |-> "init"]
        /\ loftFeatures = 0
        /\ documents = <<>>
        /\ runs = 0
        /\ joiner = NoJoiner

\* A call of _occurrence_bodies on an occurrence of the scene.
CollectBodies(occurrence) ==
    /\ ret' = [op |-> "_occurrence_bodies", occ |-> occurrence,
               value |-> _occurrence_bodies(occurrence)]
    /\ UNCHANGED <<occs, geom, snapshots, nzCalls, calls, hostVars>>

\* A call of _occurrence_sketches on an occurrence of the scene.
CollectSketches(occurrence) ==
    /\ ret' = [op |-> "_occurrence_sketches", occ |-> occurrence,
               value |-> _occurrence_sketches(occurrence)]
    /\ UNCHANGED <<occs, geom, snapshots, nzCalls, calls, hostVars>>

\* The calls change nothing: one call is followed in each scene.
NextTraversal ==
    /\ ret.op = "init"
    /\ \E occurrence \in 1..Len(occs) :
        \/ CollectBodies(occurrence)
        \/ CollectSketches(occurrence)
        \/ \E op \in {"_get_exact_bounding_box", "minOf"} : Measure(op, occurrence)

SpecTraversal == InitTraversal /\ [][NextTraversal]_vars

(***************************************************************************)
(* C1.  What the traversal must return, stated without the recursion: the  *)
(* bodies of the occurrences reached from the queried one through children *)
(* whose light bulb is on, each once, in pre-order.                        *)
(***************************************************************************)
\* The occurrences from `top` down to `n`, or <<>> when `top` is no ancestor.
RECURSIVE PathDown(_, _)
PathDown(top, n) ==
    IF n = top THEN <<top>>
    ELSE IF occs[n].parent = 0 THEN <<>>
    ELSE LET p == PathDown(top, occs[n].parent)
         IN  IF p = <<>> THEN <<>> ELSE Append(p, n)

\* n is reached from top: every occurrence below top on the path is visible.
Reached(top, n) ==
    LET p == PathDown(top, n)
    IN  /\ p # <<>>
        /\ \A i \in 2..Len(p) : occs[p[i]].isLightBulbOn

\* Body a comes before body b in the pre-order walk from top.
Precedes(top, a, b) ==
    LET pa == PathDown(top, geom[a].owner)
        pb == PathDown(top, geom[b].owner)
        common == {i \in 1..Min2(Len(pa), Len(pb)) : \A j \in 1..i : pa[j] = pb[j]}
        c == Cardinality(common)
    IN  IF pa = pb
        THEN IndexOf(occs[geom[a].owner].bRepBodies, a)
                < IndexOf(occs[geom[a].owner].bRepBodies, b)
        ELSE IF c = Len(pa) THEN TRUE
        ELSE IF c = Len(pb) THEN FALSE
        ELSE IndexOf(occs[pa[c]].childOccurrences, pa[c + 1])
                < IndexOf(occs[pa[c]].childOccurrences, pb[c + 1])

IsPreorderOfVisible(top, s) ==
    /\ Range(s) = {b \in 1..Len(geom) : Reached(top, geom[b].owner)}
    /\ \A i, j \in 1..Len(s) : i < j => s[i] # s[j] /\ Precedes(top, s[i], s[j])

\* C1: for every occurrence of every scene tree, _occurrence_bodies returns
\* exactly the bodies of the occurrence and of its descendants reached through
\* visible children, own bodies first and then child by child in child order;
\* nothing under a hidden child appears, and the occurrence's own light bulb
\* plays no part.
C1_TraversalOrder ==
    ret.op = "_occurrence_bodies" => IsPreorderOfVisible(ret.occ, ret.value)

\* A call on a hidden occurrence with two bodies of its own, a visible child
\* and a hidden child that both own bodies: the result lists the own bodies
\* and the visible child's, and leaves the hidden child's out.
C1_Witness ==
    /\ ret.op = "_occurrence_bodies"
    /\ ~occs[ret.occ].isLightBulbOn
    /\ Len(occs[ret.occ].bRepBodies) = 2
    /\ \E c1, c2 \in Range(occs[ret.occ].childOccurrences) :
        /\ occs[c1].isLightBulbOn /\ occs[c1].bRepBodies # <<>>
        /\ ~occs[c2].isLightBulbOn /\ occs[c2].bRepBodies # <<>>
        /\ Range(occs[c1].bRepBodies) \subseteq Range(ret.value)
        /\ Range(occs[c2].bRepBodies) \cap Range(ret.value) = {}
    /\ Len(ret.value) = 3

(***************************************************************************)
(* Claims about place, the placements and translate (specification Spec).  *)
(***************************************************************************)
\* Every stored coordinate leaves room for the two halvings of a measurement:
\* the arithmetic of the model is exact.
NumeralsExact ==
    /\ \A n \in 1..Len(occs) : \A i \in 1..3 : occs[n].transform[i] % 4 = 0
    /\ \A b \in 1..Len(geom) : \A i \in 1..3 :
            geom[b].minPoint[i] % 4 = 0 /\ geom[b].maxPoint[i] % 4 = 0

\* The display-unit value a placement aims at on an axis: its constant, or
\* what its callback returns for the axis.
TargetOf(placement, coordinate_index) ==
    IF placement.value.k = "num" THEN placement.value.v
    ELSE CallAt(placement.value, coordinate_index).v

\* C2: after place returns, on every axis given minAt(v), maxAt(v) or midAt(v)
\* the occurrence's bounding box, measured again in display units, has its
\* minimum, maximum or midpoint at v, and the box has the size it had.
C2_PlaceReachesTarget ==
    (ret.op = "place" /\ ~IsRaised(ret.raised)) =>
        \A i \in 0..2 :
            LET placement == ret.args[i + 1]
                now == _get_exact_bounding_box(ret.occ)
            IN  /\ placement.k = "minAt" =>
                        minOf(ret.occ).e[i + 1] = TargetOf(placement, i)
                /\ placement.k = "maxAt" =>
                        maxOf(ret.occ).e[i + 1] = TargetOf(placement, i)
                /\ placement.k = "midAt" =>
                        midOf(ret.occ).e[i + 1] = TargetOf(placement, i)
                /\ now.k = ret.before.k
                /\ now.k # "None" =>
                        now.maxPoint[i + 1] - now.minPoint[i + 1]
                            = ret.before.maxPoint[i + 1] - ret.before.minPoint[i + 1]

\* A place with minAt on the three axes has moved an occurrence that nests a
\* moved child, and its minimum is at the targets.
C2_Witness ==
    /\ ret.op = "place" /\ ~IsRaised(ret.raised)
    /\ \A i \in 1..3 : ret.args[i].k = "minAt" /\ ret.args[i].value.k = "num"
    /\ minOf(ret.occ).e = <<ret.args[1].value.v, ret.args[2].value.v, ret.args[3].value.v>>
    /\ ret.before.minPoint # _get_exact_bounding_box(ret.occ).minPoint
    /\ ret.before.minPoint # Zero3
    /\ occs[ret.occ].childOccurrences # <<>>

\* C3: on every axis and for every box, in display units, minAt(v) gives
\* v - min, maxAt(v) gives v - max, midAt(v) gives v - (min + max) / 2, for v
\* a constant or a callback's value for the axis; keep gives 0, box or no box.
C3_PlacementOffsets ==
    LET callbacks == IF occs = <<>> THEN {}
                     ELSE {cb \in {atMin(1), atMax(1), atMid(1)} :
                                cb.bounding_box.k # "None"}
    IN  \A n \in 1..Len(occs) :
            LET box == _get_exact_bounding_box(n)
            IN  \A i \in 0..2 :
                    /\ CallPlacement(keep, i, box) = Scalar(0)
                    /\ box.k # "None" =>
                        \A value \in {Scalar(0), Scalar(Target[i + 1])} \cup callbacks :
                            LET v == TargetOf(minAt(value), i)
                                lo == 10 * box.minPoint[i + 1]
                                hi == 10 * box.maxPoint[i + 1]
                            IN  /\ CallPlacement(minAt(value), i, box) = Scalar(v - lo)
                                /\ CallPlacement(maxAt(value), i, box) = Scalar(v - hi)
                                /\ CallPlacement(midAt(value), i, box)
                                        = Scalar(v - (lo + hi) \div 2)

\* A place whose x placement is minAt of a callback has moved an occurrence
\* whose box did not start at the origin.
C3_Witness ==
    /\ ret.op = "place" /\ ~IsRaised(ret.raised)
    /\ ret.args[1].k = "minAt" /\ ret.args[1].value.k = "atMax"
    /\ ret.args[2].k = "midAt" /\ ret.args[3].k = "maxAt"
    /\ \A i \in 1..3 : ret.before.minPoint[i] # 0
    /\ ret.before.minPoint # _get_exact_bounding_box(ret.occ).minPoint

\* C4: a place with a placement left out (None) raises nothing, leaves the
\* occurrence where it was on that axis, and moves it as asked on the others.
C4_MissingPlacementKeeps ==
    (ret.op = "place" /\ \E i \in 1..3 : ret.args[i].k = "None") =>
        /\ ~IsRaised(ret.raised)
        /\ \A i \in 0..2 :
            LET placement == ret.args[i + 1]
                now == _get_exact_bounding_box(ret.occ)
            IN  /\ placement.k = "None" /\ now.k # "None" =>
                        now.minPoint[i + 1] = ret.before.minPoint[i + 1]
                /\ placement.k = "minAt" /\ now.k # "None" =>
                        minOf(ret.occ).e[i + 1] = TargetOf(placement, i)

\* C5: a translate call with the three deltas zero changes no occurrence and
\* adds no snapshot; any other adds exactly one snapshot and moves only the
\* occurrence it was given, by the deltas in internal units; both return the
\* occurrence.  The snapshots therefore number the calls with a non-zero delta.
C5_TranslateSnapshots ==
    [][ret'.op = "translate" =>
        LET n == ret'.occ
            d == ret'.args
        IN  /\ ret'.value = Scalar(n)
            /\ d = Zero3 => occs' = occs /\ snapshots' = snapshots
            /\ d # Zero3 =>
                /\ snapshots' = snapshots + 1
                /\ occs'[n] = [occs[n] EXCEPT !.transform =
                        <<@[1] + d[1] \div 10, @[2] + d[2] \div 10, @[3] + d[3] \div 10>>]
                /\ \A m \in 1..Len(occs) : m # n => occs'[m] = occs[m]
            /\ snapshots' = nzCalls']_vars

\* A translate with zero deltas has returned after two that moved something.
C5_Witness ==
    /\ ret.op = "translate" /\ ret.args = Zero3
    /\ snapshots = 2 /\ nzCalls = 2

(***************************************************************************)
(* Claims about the unit conversion (specification SpecUnits).             *)
(***************************************************************************)
IsNumberSeq(v) ==
    /\ v.k \in {"tuple", "list"}
    /\ \A i \in 1..Len(v.e) : v.e[i].k = "num"
IsNestedSeq(v) ==
    /\ v.k \in {"tuple", "list"}
    /\ \A i \in 1..Len(v.e) : IsNumberSeq(v.e[i])

\* C6: _mm(_cm(v)) == v for every scalar, every 3-tuple of scalars and every
\* sequence of sequences of scalars (neither conversion fails on them), and
\* _cm(None) is None.
C6_RoundTrip ==
    (ret.op = "convert" /\ ret.steps # <<>> /\ ret.steps[1] = "_cm") =>
        /\ ret.input.k = "num" \/ IsNumberSeq(ret.input) \/ IsNestedSeq(ret.input) =>
            /\ ~IsRaised(ret.value)
            /\ ret.steps = <<"_cm", "_mm">> => ret.value = ret.input
        /\ ret.input = None /\ ret.steps = <<"_cm">> => ret.value = None

\* What claim C6 says of the values the code converts element by element:
\* scalars, flat sequences of scalars, and None.
C6_FlatRoundTrip ==
    (ret.op = "convert" /\ ret.steps # <<>> /\ ret.steps[1] = "_cm") =>
        /\ ret.input.k = "num" \/ IsNumberSeq(ret.input) =>
            /\ ~IsRaised(ret.value)
            /\ ret.steps = <<"_cm", "_mm">> => ret.value = ret.input
        /\ ret.input = None /\ ret.steps = <<"_cm">> => ret.value = None

\* C7: converting a sequence whose elements are each None or a number raises
\* nothing and gives a sequence of the same kind and length, None where None
\* was and the scaled number elsewhere; cylinder with radius2 left out
\* succeeds with both radii equal to radius.
C7_NoneElementsPass ==
    /\ (/\ ret.op = "convert" /\ Len(ret.steps) = 1
        /\ ret.input.k \in {"tuple", "list"}
        /\ \A i \in 1..Len(ret.input.e) : ret.input.e[i].k \in {"None", "num"})
        => /\ ~IsRaised(ret.value)
           /\ ret.value.k = ret.input.k
           /\ Len(ret.value.e) = Len(ret.input.e)
           /\ \A i \in 1..Len(ret.input.e) :
                IF ret.input.e[i].k = "None" THEN ret.value.e[i] = None
                ELSE ret.value.e[i] =
                        Scalar(IF ret.steps[1] = "_mm" THEN ret.input.e[i].v * 10
                               ELSE ret.input.e[i].v \div 10)
    /\ (ret.op = "cylinder" /\ ret.args[3] = None)
        => /\ ~IsRaised(ret.raised)
           /\ ret.radii = <<ret.args[2].v \div 10, ret.args[2].v \div 10>>

(***************************************************************************)
(* Claims about measuring an empty occurrence (specification               *)
(* SpecTraversal).                                                         *)
(***************************************************************************)
\* C8: _get_exact_bounding_box on an occurrence without visible body and
\* without sketch raises an error and returns nothing, neither a box nor
\* None; minOf on such an occurrence raises for that reason.
C8_EmptyBoxFails ==
    (/\ ret.op \in {"_get_exact_bounding_box", "minOf"}
     /\ _occurrence_bodies(ret.occ) = <<>>
     /\ _occurrence_sketches(ret.occ) = <<>>)
        => /\ IsRaised(ret.raised)
           /\ IsRaised(_get_exact_bounding_box(ret.occ))

(***************************************************************************)
(* Claims about loft (specification SpecLoft).                             *)
(***************************************************************************)
\* C9: a loft call given a sketch that has not exactly one profile raises the
\* ValueError that names such a sketch and adds no loft feature; a
\* call whose sketches have one profile each adds the feature.
C9_LoftValidates ==
    [][ret'.op = "loft" =>
        LET sketches == ret'.args
            bad == {i \in 1..Len(sketches) : sketches[i].profiles # 1}
        IN  /\ bad # {} =>
                /\ \E i \in bad : ret'.raised = ValueError(sketches[i].name)
                /\ loftFeatures' = loftFeatures
                /\ occs' = occs
            /\ bad = {} =>
                /\ ret'.raised = None
                /\ loftFeatures' = loftFeatures + 1]_vars

(***************************************************************************)
(* Claims about run_design (specification SpecRun).                        *)
(***************************************************************************)
\* C10: in every run_design call the design function is invoked at most
\* once; a failure of the document setup or of the design function does not
\* reach the caller; the dialog is shown only if message_box_on_error is set;
\* after a failure the document the call created is still open; and at most
\* one document of a name handed to run_design is open.
C10_RunDesign ==
    /\ ret.op = "run_design" =>
        /\ ret.invocations <= 1
        /\ ~ret.propagated
        /\ ret.dialog => ret.message_box_on_error /\ ret.failed
        /\ ret.failed /\ ret.created # 0 =>
                \E i \in 1..Len(documents) : documents[i].id = ret.created
    /\ \A name \in DocumentNames :
            Cardinality({i \in 1..Len(documents) : documents[i].name = name}) <= 1

\* The host gives every open document an id of its own.
DocumentIdsDistinct ==
    \A i, j \in 1..Len(documents) : i # j => documents[i].id # documents[j].id

\* A call has found the document of an earlier call, closed it, created and
\* named the next, and failed in the design function, the dialog not asked for.
C10_Witness ==
    /\ ret.op = "run_design" /\ runs >= 2
    /\ ret.failed /\ ret.invocations = 1 /\ ~ret.message_box_on_error
    /\ ret.closed # 0 /\ ret.created # 0
    /\ \E i \in 1..Len(documents) :
            documents[i].id = ret.created /\ documents[i].name = ret.document_name

(***************************************************************************)
(* Claims about the primitives (specification SpecPrimitives).             *)
(***************************************************************************)
\* C11: a call of box, sphere, cylinder or rect that raises nothing returns
\* the occurrence it has just added to the design, never None.
C11_ConstructorsReturn ==
    (ret.op \in Constructors /\ ~IsRaised(ret.raised)) =>
        /\ ret.value # None
        /\ ret.value = Scalar(Len(occs))

(***************************************************************************)
(* Claims about Joiner (specification SpecJoiner).                         *)
(***************************************************************************)
\* C12: the join method is not invoked before the scope ends; when the body
\* raises nothing it is invoked once, at the end of the scope, with the
\* entities added in the scope in the order they were added; when the body
\* raises it is never invoked, the error leaves the scope as it was raised,
\* and result() returns no occurrence.
C12_JoinerScope ==
    /\ joiner.phase \in {"new", "entered"} => joiner.joins = <<>>
    /\ joiner.phase = "exited" =>
        IF joiner.error = None
        THEN joiner.joins = <<joiner.added>>
        ELSE /\ joiner.joins = <<>>
             /\ joiner.propagated = joiner.error
             /\ joiner._occurrence = Unset
             /\ ret.op = "result" => IsRaised(ret.raised)

\* result() has been called after a scope that added two different entities
\* and then raised; and the join was never made.
C12_Witness ==
    /\ ret.op = "result" /\ IsRaised(ret.raised)
    /\ joiner.phase = "exited" /\ joiner.error # None
    /\ Len(joiner.added) >= 2 /\ joiner.added[1] # joiner.added[2]
    /\ joiner.joins = <<>>

(***************************************************************************)
(* Claims about touching (specification SpecTouching).                     *)
(***************************************************************************)
\* C13: after touching(anchor, target) the target has moved by the vector
\* from its closest point to the anchor's, the two are at distance 0, the
\* anchor is where it was, and a call at distance 0 has added no snapshot.
C13_TouchingCloses ==
    ret.op = "touching" =>
        LET now == measureMinimumDistance(ret.target, ret.anchor)
        IN  /\ WorldOffset(ret.target) = VAdd(ret.target_at, ret.distance)
            /\ now.positionOne = now.positionTwo
            /\ WorldOffset(ret.anchor) = ret.anchor_at
            /\ ret.distance = Zero3 => snapshots = ret.snapshots_before

\* What claim C13 says of a call at distance 0: nothing moves, no snapshot.
C13_TouchingAtZero ==
    (ret.op = "touching" /\ ret.distance = Zero3) =>
        /\ WorldOffset(ret.target) = ret.target_at
        /\ WorldOffset(ret.anchor) = ret.anchor_at
        /\ snapshots = ret.snapshots_before

====
